---------------------------- MODULE Spec2Model ----------------------------
(***************************************************************************)
(* Model of the AI query pipeline of podcast-2-0-ai-player (mcp-server):   *)
(*   tests/ai_query/query_interpreter.py  sanitize_query,                  *)
(*                                        parse_claude_response,           *)
(*                                        normalize_search_type            *)
(*   tests/ai_query/claude_client.py      ClaudeQueryClient                *)
(*   tests/ai_query/podcastindex_client.py PodcastIndexClient              *)
(*   run_ai_query_test.py                 run_single_query, run_fixtures   *)
(*                                                                         *)
(* A text is a sequence of symbols.  A symbol is one character ("<", " ",  *)
(* "{", a back-tick, ...) or a run of letters written as one word          *)
(* ("byperson", "json").  None of the modelled operations splits a word:   *)
(* they trim white space, delete the characters < > ; & |, cut a fixed     *)
(* prefix or suffix, and search for braces.  The sanitizer's inputs use    *)
(* one-character symbols only, so Len is the character count there.        *)
(***************************************************************************)
EXTENDS Integers, Sequences, FiniteSets, TLC

(***************************************************************************)
(* Bounds of the model.                                                    *)
(***************************************************************************)
MaxShortLen == 3
LenSlack == 2
MaxPad == 1
MaxTypeLen == 3

(***************************************************************************)
(* Program constants.                                                      *)
(***************************************************************************)
MAX_QUERY_LENGTH == 500

(***************************************************************************)
(* Python values.  An Optional[str] is Some(text) or None.                 *)
(***************************************************************************)
None == [some |-> FALSE, val |-> <<>>]
Some(s) == [some |-> TRUE, val |-> s]

(***************************************************************************)
(* str.strip(): white space is removed at both ends.                       *)
(***************************************************************************)
Whitespace == {" ", "\n", "\t"}

RECURSIVE FirstKept(_, _)
FirstKept(s, i) ==
    IF i > Len(s) THEN i
    ELSE IF s[i] \in Whitespace THEN FirstKept(s, i + 1) ELSE i

RECURSIVE LastKept(_, _)
LastKept(s, i) ==
    IF i < 1 THEN i
    ELSE IF s[i] \in Whitespace THEN LastKept(s, i - 1) ELSE i

strip_LeadingOnly(s) == SubSeq(s, FirstKept(s, 1), Len(s))

strip(s) ==
    LET a == FirstKept(s, 1)
        b == LastKept(s, Len(s))
    IN IF a > b THEN <<>> ELSE SubSeq(s, a, b)

(***************************************************************************)
(* re.sub(r'[<>;&|]', '', s): every occurrence of the five characters is   *)
(* deleted.                                                                *)
(***************************************************************************)
Dangerous == {"<", ">", ";", "&", "|"}

NotDangerous(c) == c \notin Dangerous

RemoveDangerous_KeepPipe(s) == SelectSeq(s, LAMBDA c : c \notin {"<", ">", ";", "&"})

RemoveDangerous(s) == SelectSeq(s, NotDangerous)

(***************************************************************************)
(* sanitize_query (query_interpreter.py 78-103).                           *)
(***************************************************************************)
sanitize_query_LengthAfterRemoval(query) ==
    LET trimmed == strip(query)
        sanitized == strip(RemoveDangerous(trimmed))
    IN IF trimmed = <<>> \/ Len(sanitized) > MAX_QUERY_LENGTH THEN None
       ELSE IF sanitized # <<>> THEN Some(sanitized) ELSE None

sanitize_query_ReturnsEmpty(query) ==
    LET trimmed == strip(query)
    IN IF trimmed = <<>> \/ Len(trimmed) > MAX_QUERY_LENGTH THEN None
       ELSE Some(strip(RemoveDangerous(trimmed)))

sanitize_query_NoRetrim(query) ==
    LET trimmed == strip(query)
    IN IF trimmed = <<>> \/ Len(trimmed) > MAX_QUERY_LENGTH THEN None
       ELSE LET sanitized == RemoveDangerous(trimmed)
            IN IF sanitized # <<>> THEN Some(sanitized) ELSE None

sanitize_query(query) ==
    LET trimmed == strip(query)
    IN IF trimmed = <<>> \/ Len(trimmed) > MAX_QUERY_LENGTH THEN None
       ELSE LET sanitized == strip(RemoveDangerous(trimmed))
            IN IF sanitized # <<>> THEN Some(sanitized) ELSE None

(***************************************************************************)
(* validate_search_type and normalize_search_type                          *)
(* (query_interpreter.py 164-188).  str.lower() maps each word to its      *)
(* lower-case spelling.                                                    *)
(***************************************************************************)
LowerWord(w) ==
    CASE w = "BYPERSON" -> "byperson"
      [] w = "ByTitle" -> "bytitle"
      [] w = "BYTERM" -> "byterm"
      [] w = "Podcast" -> "podcast"
      [] OTHER -> w

lower(s) == [i \in 1..Len(s) |-> LowerWord(s[i])]

validate_search_type(search_type) ==
    search_type \in {<<"byperson">>, <<"bytitle">>, <<"byterm">>}

normalize_search_type_NoLower(search_type) ==
    LET normalized == strip(search_type)
    IN IF validate_search_type(normalized) THEN normalized ELSE <<"byterm">>

normalize_search_type(search_type) ==
    LET normalized == strip(lower(search_type))
    IN IF validate_search_type(normalized) THEN normalized ELSE <<"byterm">>

(***************************************************************************)
(* JSON values as the code reads them.  A member of an object is absent,   *)
(* a string, a number or null; Truthy is Python's truth value of it.       *)
(***************************************************************************)
Absent == [t |-> "absent", s |-> <<>>]
Str(s) == [t |-> "str", s |-> s]
Num(d) == [t |-> "num", s |-> <<d>>]
Null == [t |-> "null", s |-> <<>>]

Truthy(v) ==
    CASE v.t = "str" -> v.s # <<>>
      [] v.t = "num" -> v.s # <<"0">>
      [] OTHER -> FALSE

(* dict.get(key, default) *)
PyGet(f, key, default) == IF f[key].t = "absent" THEN default ELSE f[key]

Keys == {"search_type", "category", "query", "explanation"}
KeyOrder == <<"search_type", "category", "query", "explanation">>
NoFields == [k \in Keys |-> Absent]

Obj(f) == [t |-> "obj", s |-> <<>>, f |-> f]
Scalar(t, s) == [t |-> t, s |-> s, f |-> NoFields]

(***************************************************************************)
(* The JSON values the first text block of a model reply may spell: every  *)
(* object over the four keys with values from small sets, and the values   *)
(* that are no object.                                                     *)
(***************************************************************************)
SearchTypeValues ==
    {Absent, Str(<<"byperson">>), Str(<<"bytitle">>), Str(<<"byterm">>),
     Str(<<"BYPERSON">>), Str(<<"podcast">>), Num("5")}
CategoryValues == {Absent, Str(<<"byperson">>)}
QueryValues ==
    {Absent, Str(<<>>), Str(<<"Test", " ", "Person">>), Num("0"), Num("5"), Null}
ExplanationValues == {Absent, Str(<<"Test">>)}

InnerObjects ==
    {Obj([k \in Keys |->
            CASE k = "search_type" -> st
              [] k = "category" -> cat
              [] k = "query" -> q
              [] k = "explanation" -> ex]) :
        st \in SearchTypeValues, cat \in CategoryValues,
        q \in QueryValues, ex \in ExplanationValues}

InnerNonObjects ==
    {Scalar("arr", <<>>), Scalar("str", <<"hello">>), Scalar("num", <<"5">>),
     Scalar("null", <<>>)}

InnerUniverse == InnerObjects \cup InnerNonObjects

(***************************************************************************)
(* The spelling of a JSON value, and json.loads as its inverse: a text     *)
(* parses iff, white space at its ends apart, it spells a value.           *)
(***************************************************************************)
DumpMember(v) ==
    CASE v.t = "str" -> <<"\"">> \o v.s \o <<"\"">>
      [] v.t = "num" -> v.s
      [] v.t = "null" -> <<"null">>

RECURSIVE DumpFields(_, _, _)
DumpFields(f, i, first) ==
    IF i > Len(KeyOrder) THEN <<>>
    ELSE LET k == KeyOrder[i]
         IN IF f[k].t = "absent" THEN DumpFields(f, i + 1, first)
            ELSE (IF first THEN <<>> ELSE <<",", " ">>)
                 \o <<"\"", k, "\"", ":", " ">> \o DumpMember(f[k])
                 \o DumpFields(f, i + 1, FALSE)

Dumps(v) ==
    CASE v.t = "obj" -> <<"{">> \o DumpFields(v.f, 1, TRUE) \o <<"}">>
      [] v.t = "arr" -> <<"[", "]">>
      [] OTHER -> DumpMember(v)

Spelling == [v \in InnerUniverse |-> Dumps(v)]

JsonLoads(text) ==
    LET t == strip(text)
        values == {v \in InnerUniverse : Spelling[v] = t}
    IN IF values = {} THEN [ok |-> FALSE, v |-> Scalar("null", <<>>)]
       ELSE [ok |-> TRUE, v |-> CHOOSE v \in values : TRUE]

(***************************************************************************)
(* str.removeprefix, str.removesuffix, str.find, str.rfind (0-based, -1    *)
(* when the character does not occur).                                     *)
(***************************************************************************)
removeprefix(s, p) ==
    IF Len(s) >= Len(p) /\ SubSeq(s, 1, Len(p)) = p
    THEN SubSeq(s, Len(p) + 1, Len(s)) ELSE s

removesuffix(s, p) ==
    IF Len(p) > 0 /\ Len(s) >= Len(p) /\ SubSeq(s, Len(s) - Len(p) + 1, Len(s)) = p
    THEN SubSeq(s, 1, Len(s) - Len(p)) ELSE s

find(s, c) ==
    LET at == {i \in 1..Len(s) : s[i] = c}
    IN IF at = {} THEN -1 ELSE (CHOOSE i \in at : \A j \in at : i <= j) - 1

rfind(s, c) ==
    LET at == {i \in 1..Len(s) : s[i] = c}
    IN IF at = {} THEN -1 ELSE (CHOOSE i \in at : \A j \in at : i >= j) - 1

(* The back-tick character is written as the symbol "BACKTICK". *)
BT == "BACKTICK"
FenceJson == <<BT, BT, BT, "json">>
Fence == <<BT, BT, BT>>

(***************************************************************************)
(* The body of a model reply, by the places the code looks at:             *)
(*   top      what the body is: "not_json" (a text that is no JSON) or the *)
(*            type of the JSON value;                                      *)
(*   content  the "content" member of a top-level object;                  *)
(*   block0   content[0] when content is a non-empty list;                 *)
(*   text     the "text" member of block0 when block0 is an object;        *)
(*   err      the "error" member of a top-level object ("obj_msg": an      *)
(*            object with a "message").                                    *)
(* json.dumps of a body that came from response.json() is the body itself: *)
(* a JSON document is written here as the value it spells.                 *)
(***************************************************************************)
Body(top, content, block0, text, err) ==
    [top |-> top, content |-> content, block0 |-> block0, text |-> text, err |-> err]

FalsyContent == {"absent", "null", "arr_empty", "obj_empty", "str_empty", "num0"}

(***************************************************************************)
(* parse_claude_response (query_interpreter.py 106-161).  The outcome is   *)
(* an interpretation, None, or an exception that leaves the function.      *)
(***************************************************************************)
NoInterp == [search_type |-> Absent, query |-> Absent, explanation |-> Absent]
Returned(i) == [out |-> "interp", exc |-> "", interp |-> i]
ReturnedNone == [out |-> "none", exc |-> "", interp |-> NoInterp]
Raised(e) == [out |-> "raise", exc |-> e, interp |-> NoInterp]

Caught == {"JSONDecodeError", "KeyError", "IndexError", "TypeError"}
Except(e) == IF e \in Caught THEN ReturnedNone ELSE Raised(e)

ObjectSpan_FencesOnly(stripped) ==
    strip(removesuffix(removeprefix(removeprefix(stripped, FenceJson), Fence), Fence))

(* lines 133-143: the fences are cut and the text is cut to the braces *)
ObjectSpan(stripped) ==
    LET unfenced == strip(removesuffix(
                        removeprefix(removeprefix(stripped, FenceJson), Fence), Fence))
        start_idx == find(unfenced, "{")
        end_idx == rfind(unfenced, "}")
    IN IF start_idx >= 0 /\ end_idx > start_idx
       THEN SubSeq(unfenced, start_idx + 1, end_idx + 1) ELSE unfenced

ReadFields_AnyQuery(parsed, typeKey) ==
    Returned([search_type |-> PyGet(parsed.f, typeKey, Str(<<"byterm">>)),
              query |-> PyGet(parsed.f, "query", Str(<<>>)),
              explanation |-> PyGet(parsed.f, "explanation", Str(<<>>))])

(* lines 145-158: the object's members are read *)
ReadFields(parsed, typeKey) ==
    LET search_type == PyGet(parsed.f, typeKey, Str(<<"byterm">>))
        query == PyGet(parsed.f, "query", Str(<<>>))
        explanation == PyGet(parsed.f, "explanation", Str(<<>>))
    IN IF Truthy(query)
       THEN Returned([search_type |-> search_type, query |-> query,
                      explanation |-> explanation])
       ELSE ReturnedNone

ParseText(text, typeKey) ==
    LET stripped == strip(text)
    IN IF stripped = <<>> THEN ReturnedNone
       ELSE LET loaded == JsonLoads(ObjectSpan(stripped))
            IN IF ~loaded.ok THEN Except("JSONDecodeError")
               ELSE IF loaded.v.t # "obj" THEN Except("AttributeError")
               ELSE ReadFields(loaded.v, typeKey)

ParseBody(body, typeKey) ==
    IF body.top = "not_json" THEN Except("JSONDecodeError")
    ELSE IF body.top # "obj" THEN Except("AttributeError")
    ELSE IF body.content \in FalsyContent THEN ReturnedNone
    ELSE IF body.content = "obj" THEN Except("KeyError")
    ELSE IF body.content = "num" THEN Except("TypeError")
    ELSE IF body.content = "str" THEN Except("AttributeError")
    ELSE IF body.block0 # "obj" THEN Except("AttributeError")
    ELSE IF body.text.t = "absent" THEN ReturnedNone
    ELSE IF body.text.t # "str" THEN Except("AttributeError")
    ELSE ParseText(body.text.s, typeKey)

parse_claude_response_category(response_body) == ParseBody(response_body, "category")

parse_claude_response(response_body) == ParseBody(response_body, "search_type")

(***************************************************************************)
(* ClaudeQueryClient.interpret_query (claude_client.py 129-223).           *)
(* A reply is what self._client.post and response.json() produce:          *)
(*   transport "timeout"        httpx.TimeoutException                     *)
(*             "request_error"  httpx.RequestError                         *)
(*             "not_json"       a response whose body is no JSON           *)
(*             "ok"             a response with a JSON body                *)
(* Console output (the verbose panels and tables) is not modelled.         *)
(***************************************************************************)
API_URL == <<"https://api.anthropic.com/v1/messages">>

EmptyBody == Body("obj", "absent", "obj", Absent, "absent")
NotJsonBody == Body("not_json", "absent", "obj", Absent, "absent")

Reply(transport, status, body) ==
    [transport |-> transport, status |-> status, body |-> body]

(* str(n) for the numbers that occur *)
IntText(n) ==
    CASE n = 0 -> "0" [] n = 1 -> "1" [] n = 2 -> "2" [] n = 3 -> "3"
      [] n = 20 -> "20" [] n = 200 -> "200" [] n = 201 -> "201" [] n = 401 -> "401"
      [] n = 500 -> "500" [] OTHER -> "n"

NoInterpretation == [some |-> FALSE, v |-> NoInterp]

RequestLog(api_key, query) ==
    [url |-> API_URL,
     headers |-> [x_api_key |-> api_key, anthropic_version |-> "2023-06-01",
                  content_type |-> "application/json"],
     body |-> [messages |-> <<[role |-> "user", content |-> query]>>]]

ResponseLog(status_code, body) == [status_code |-> status_code, body |-> body]

NoRequest == RequestLog(<<>>, <<>>)
NoResponse == ResponseLog(0, EmptyBody)

QueryResult(query, interpretation, request, response, error) ==
    [query |-> query, interpretation |-> interpretation, request |-> request,
     response |-> response, error |-> error]

NoResult == QueryResult(<<>>, NoInterpretation, NoRequest, NoResponse, None)

(* QueryResult.success (claude_client.py 78-80) *)
success(r) == r.interpretation.some /\ ~r.error.some

(* lines 175-185: the call and the exceptions it catches *)
TransportError(reply) ==
    CASE reply.transport = "timeout" -> Some(<<"Request timed out">>)
      [] reply.transport = "request_error" -> Some(<<"Request failed: ", "e">>)
      [] reply.transport = "not_json" -> Some(<<"Failed to parse response JSON">>)
      [] OTHER -> None

(* status_code is assigned before response.json() can fail; response_body  *)
(* keeps its initial {} unless response.json() returned.                   *)
StatusCode(reply) ==
    IF reply.transport \in {"timeout", "request_error"} THEN 0 ELSE reply.status

ResponseBody(reply) == IF reply.transport = "ok" THEN reply.body ELSE EmptyBody

(* line 208: response_body.get('error', {}).get('message', 'Unknown') *)
ErrorMessage(body) ==
    IF body.top # "obj" THEN [raised |-> TRUE, msg |-> <<>>]
    ELSE CASE body.err = "absent" -> [raised |-> FALSE, msg |-> <<"Unknown">>]
           [] body.err = "obj" -> [raised |-> FALSE, msg |-> <<"Unknown">>]
           [] body.err = "obj_msg" -> [raised |-> FALSE, msg |-> <<"Invalid API key">>]
           [] OTHER -> [raised |-> TRUE, msg |-> <<>>]

(* The outcome of one call: the QueryResult returned, or the exception     *)
(* that leaves interpret_query; sent is the text put on the wire.          *)
CallOutcome(raised, result) ==
    [raised |-> raised, result |-> result, sent |-> result.request.body.messages[1].content]

interpret_query_AnyStatus(api_key, query, reply) ==
    LET request == RequestLog(api_key, query)
        error == TransportError(reply)
        response_body == ResponseBody(reply)
        response == ResponseLog(StatusCode(reply), response_body)
        failed(e) == QueryResult(query, NoInterpretation, request, response, e)
    IN IF ~error.some
       THEN LET p == parse_claude_response(response_body)
            IN CASE p.out = "raise" -> CallOutcome(TRUE, failed(None))
                 [] p.out = "none" ->
                      CallOutcome(FALSE, failed(Some(<<"Failed to parse Claude response">>)))
                 [] OTHER ->
                      CallOutcome(FALSE, QueryResult(query, [some |-> TRUE, v |-> p.interp],
                                                     request, response, None))
       ELSE CallOutcome(FALSE, failed(error))

interpret_query(api_key, query, reply) ==
    LET request == RequestLog(api_key, query)
        error == TransportError(reply)
        status_code == StatusCode(reply)
        response_body == ResponseBody(reply)
        response == ResponseLog(status_code, response_body)
        failed(e) == QueryResult(query, NoInterpretation, request, response, e)
    IN IF ~error.some /\ status_code = 200
       THEN LET p == parse_claude_response(response_body)
            IN CASE p.out = "raise" -> CallOutcome(TRUE, failed(None))
                 [] p.out = "none" ->
                      CallOutcome(FALSE, failed(Some(<<"Failed to parse Claude response">>)))
                 [] OTHER ->
                      CallOutcome(FALSE, QueryResult(query, [some |-> TRUE, v |-> p.interp],
                                                     request, response, None))
       ELSE IF ~error.some
       THEN LET m == ErrorMessage(response_body)
            IN IF m.raised THEN CallOutcome(TRUE, failed(None))
               ELSE CallOutcome(FALSE,
                        failed(Some(<<"API error: ", IntText(status_code), " - ">> \o m.msg)))
       ELSE CallOutcome(FALSE, failed(error))

(***************************************************************************)
(* What a ClaudeQueryClient hands out (claude_client.py 41-47, 225-239).   *)
(***************************************************************************)
RequestLog_to_dict_KeepKey(request) ==
    [url |-> request.url, headers |-> request.headers, body |-> request.body]

(* lines 41-47: every header but x-api-key is copied *)
RequestLog_to_dict(request) ==
    [url |-> request.url,
     headers |-> [h \in DOMAIN request.headers \ {"x_api_key"} |-> request.headers[h]],
     body |-> request.body]

NoExport == [some |-> FALSE, v |-> RequestLog_to_dict(NoRequest)]

(* lines 225-227; _last_request is None until the first call *)
get_last_request(last) ==
    IF last = NoRequest THEN NoExport ELSE [some |-> TRUE, v |-> RequestLog_to_dict(last)]

(* A list handed to the caller: alias says whether it is the client's own  *)
(* list object, changed says whether the caller has changed it since.      *)
NoList == [some |-> FALSE, alias |-> FALSE, changed |-> FALSE, items |-> <<>>]

get_history_NoCopy(h) == [some |-> TRUE, alias |-> TRUE, changed |-> FALSE, items |-> h]

(* lines 233-235: self._history.copy() *)
get_history(h) == [some |-> TRUE, alias |-> FALSE, changed |-> FALSE, items |-> h]

Operation(op, q, reply) == [op |-> op, query |-> q, reply |-> reply]

NoOperation == Operation("none", <<>>, Reply("timeout", 0, EmptyBody))

(***************************************************************************)
(* AndroidBridge (server.py 38-106).  A reply line is a sequence of        *)
(* tokens; json.loads reads a JSON object, another JSON value, or fails.   *)
(***************************************************************************)
BridgeValue(t, status, detail) == [t |-> t, status |-> status, detail |-> detail]

NotReturned == [raised |-> FALSE, v |-> BridgeValue("none", "", "")]

BridgeRaise(e) == [raised |-> TRUE, v |-> BridgeValue("exception", "", e)]

BridgeReturn(v) == [raised |-> FALSE, v |-> v]

(* line 82: json.loads(response_data.decode()) *)
BridgeLoads(line) ==
    IF line = <<>> THEN BridgeRaise("JSONDecodeError")
    ELSE CASE line[1] = "{" /\ Len(line) = 5 /\ line[3] = ":" /\ line[5] = "}" ->
                  BridgeReturn(BridgeValue("obj", IF line[2] = "status" THEN line[4] ELSE "", ""))
           [] line = <<"{", "}">> -> BridgeReturn(BridgeValue("obj", "", ""))
           [] line = <<"[", "]">> -> BridgeReturn(BridgeValue("arr", "", ""))
           [] line = <<"null">> -> BridgeReturn(BridgeValue("null", "", ""))
           [] OTHER -> BridgeRaise("JSONDecodeError")

(* lines 69-85: the connection, the write and the reply *)
_send_via_socket(peer) ==
    IF peer.connect # "ok" THEN BridgeRaise(peer.connect)
    ELSE BridgeLoads(peer.line)

(* lines 87-105: every outcome of the broadcast is turned into a mapping *)
_send_via_adb(action, adb) ==
    IF adb.raised THEN BridgeReturn(BridgeValue("obj", "error", adb.error))
    ELSE IF adb.returncode = 0 THEN BridgeReturn(BridgeValue("obj", "success", action))
    ELSE BridgeReturn(BridgeValue("obj", "error", adb.stderr))

(***************************************************************************)
(* The replies the model service is taken to give.  The first text block   *)
(* spells a value of InnerUniverse, alone or inside fences, prose or white *)
(* space, or is no JSON at all.                                            *)
(***************************************************************************)
Wrappings(x) ==
    {x,
     FenceJson \o <<"\n">> \o x \o <<"\n">> \o Fence,
     Fence \o <<"\n">> \o x \o <<"\n">> \o Fence,
     <<"Here", " ", "is", ":", " ">> \o x \o <<" ", "Hope", "!">>,
     <<" ", "\n">> \o x \o <<"\n">>,
     FenceJson \o <<"\n">> \o x,
     <<"Here", " ", "is", ":", "\n">> \o FenceJson \o <<"\n">> \o x \o <<"\n">> \o Fence
        \o <<"\n", "Hope", "!">>}

JunkTexts ==
    {<<>>, <<" ", "\n">>, <<"Sorry">>,
     <<"{", "\"", "search_type", "\"", ":", " ", "\"", "byterm", "\"", ",", " ",
       "\"", "query", "\"", ":", " ", "incomplete">>,
     <<"}", " ", "{">>,
     <<"{", "x", "}", " ", "{", "\"", "query", "\"", ":", " ", "\"", "a", "\"", "}">>}

Wrapped == [v \in InnerUniverse |-> Wrappings(Spelling[v])]

ReplyTexts == UNION {Wrapped[v] : v \in InnerUniverse} \cup JunkTexts

TextBody(text) == Body("obj", "arr", "obj", Str(text), "absent")

(* bodies whose shape is not {content: [{text: <string>}]} *)
OddBodies ==
    {Body(top, "absent", "obj", Absent, "absent") : top \in {"arr", "str", "num", "null"}}
    \cup {Body("obj", c, "obj", Absent, "absent") :
            c \in FalsyContent \cup {"obj", "num", "str"}}
    \cup {Body("obj", "arr", b, Absent, "absent") : b \in {"arr", "str", "num", "null"}}
    \cup {Body("obj", "arr", "obj", t, "absent") :
            t \in {Absent, Null, Num("5"), [t |-> "arr", s |-> <<>>]}}

OkBodies == {TextBody(t) : t \in ReplyTexts} \cup OddBodies

ErrorBodies ==
    {Body("obj", "absent", "obj", Absent, e) :
        e \in {"absent", "obj", "obj_msg", "str", "null"}}
    \cup {Body(top, "absent", "obj", Absent, "absent") : top \in {"arr", "str", "null"}}
    \cup {TextBody(Spelling[Obj([NoFields EXCEPT !["query"] = Str(<<"Test", " ", "Person">>)])])}

ErrorStatuses == {201, 401, 500}

Replies ==
    {Reply("timeout", 0, EmptyBody), Reply("request_error", 0, EmptyBody)}
    \cup {Reply("not_json", st, NotJsonBody) : st \in {200, 500}}
    \cup {Reply("ok", 200, b) : b \in OkBodies}
    \cup {Reply("ok", st, b) : st \in ErrorStatuses, b \in ErrorBodies}

ClientQueries == {<<"a">>, <<" ", "<", "a", "|">>}
ApiKeys == {<<"sk-ant-1">>}

(***************************************************************************)
(* PodcastResult.from_api (podcastindex_client.py 45-56).  A feed is an    *)
(* object (its members in f) or some other JSON value.                     *)
(***************************************************************************)
FeedKeys ==
    {"id", "title", "author", "description", "episodeCount", "artwork", "image",
     "url", "language"}

Feed(f) == [t |-> "obj", f |-> [k \in FeedKeys |-> IF k \in DOMAIN f THEN f[k] ELSE Absent]]
NonObjectFeed == [t |-> "str", f |-> [k \in FeedKeys |-> Absent]]

Take(s, n) == SubSeq(s, 1, IF Len(s) < n THEN Len(s) ELSE n)

(* data.get(key): None when the member is absent *)
PyGetOrNone(f, key) == PyGet(f, key, Null)

FromApiRaises(data) ==
    \/ data.t # "obj"
    \/ Truthy(PyGetOrNone(data.f, "description")) /\ data.f["description"].t # "str"

from_api(data) ==
    [id |-> PyGet(data.f, "id", Num("0")),
     title |-> PyGet(data.f, "title", Str(<<"Unknown">>)),
     author |-> PyGet(data.f, "author", Str(<<"Unknown">>)),
     description |-> IF Truthy(PyGetOrNone(data.f, "description"))
                     THEN Str(Take(data.f["description"].s, 200)) ELSE Str(<<>>),
     episode_count |-> PyGet(data.f, "episodeCount", Num("0")),
     image_url |-> IF Truthy(PyGetOrNone(data.f, "artwork"))
                   THEN data.f["artwork"] ELSE PyGetOrNone(data.f, "image"),
     feed_url |-> PyGet(data.f, "url", Str(<<>>)),
     language |-> PyGetOrNone(data.f, "language")]

(***************************************************************************)
(* PodcastIndexClient.search (podcastindex_client.py 242-347) and          *)
(* _build_headers (220-240).  A search response is, like a model reply, a  *)
(* time-out, a transport failure, a body that is no JSON, or a status with *)
(* a JSON body; of the body the code reads "feeds" (absent, null or a      *)
(* list), "count" and "description".  The SHA-1 digest is kept as the      *)
(* text it was computed from.                                              *)
(***************************************************************************)
DEFAULT_MAX_RESULTS == 20

SearchBody(top, feeds, items, count, description) ==
    [top |-> top, feeds |-> feeds, items |-> items, count |-> count,
     description |-> description]

EmptySearchBody == SearchBody("obj", "absent", <<>>, Absent, Absent)

SearchResponse(transport, status, body) ==
    [transport |-> transport, status |-> status, body |-> body]

_generate_auth_hash(api_key, api_secret, timestamp) ==
    [sha1_hex_of |-> <<api_key, api_secret, timestamp>>]

(* str(int(time.time())): the clock counts half seconds, int() drops the   *)
(* fraction and str() writes the seconds in decimal                        *)
UnixSeconds(now) == IntText(now \div 2)

_build_headers_SignedOnce(api_key, api_secret, now) ==
    [X_Auth_Key |-> api_key, X_Auth_Date |-> UnixSeconds(now),
     Authorization |-> _generate_auth_hash(api_key, api_secret, UnixSeconds(2)),
     User_Agent |-> "PodcastApp/1.0"]

_build_headers(api_key, api_secret, now) ==
    LET timestamp == UnixSeconds(now)
    IN [X_Auth_Key |-> api_key, X_Auth_Date |-> timestamp,
        Authorization |-> _generate_auth_hash(api_key, api_secret, timestamp),
        User_Agent |-> "PodcastApp/1.0"]

(* RequestLog.to_dict (podcastindex_client.py 67-80): of a header value of *)
(* more than 8 characters the first 8 are kept in front of "...REDACTED".  *)
(* The hex digest has 40 characters.                                       *)
Redacted(v) == IF Len(v) > 8 THEN Take(v, 8) \o <<"...REDACTED">> ELSE <<"REDACTED">>

to_dict(request) ==
    [url |-> [endpoint |-> request.endpoint, params |-> request.params],
     headers |-> [X_Auth_Key |-> Redacted(request.headers.X_Auth_Key),
                  X_Auth_Date |-> request.headers.X_Auth_Date,
                  Authorization |-> [first_8_of |-> request.headers.Authorization,
                                     then |-> "...REDACTED"],
                  User_Agent |-> request.headers.User_Agent],
     method |-> "GET"]

(* lines 263-268: endpoint_map.get(search_type, "search/byterm") *)
Endpoint(search_type) ==
    IF search_type \in {Str(<<"byperson">>), Str(<<"bytitle">>), Str(<<"byterm">>)}
    THEN search_type.s[1] ELSE "byterm"

(* lines 275-277 *)
Params(search_type, query, max_results) ==
    [q |-> query, max |-> max_results, clean |-> search_type = Str(<<"byterm">>)]

SearchRequest(api_key, api_secret, search_type, query, max_results, now) ==
    [endpoint |-> Endpoint(search_type),
     params |-> Params(search_type, query, max_results),
     headers |-> _build_headers(api_key, api_secret, now)]

SearchResult(search_type, query, podcasts, total_count, request, response, error) ==
    [search_type |-> search_type, query |-> query, podcasts |-> podcasts,
     total_count |-> total_count, request |-> request, response |-> response,
     error |-> error]

(* lines 299-317: what the try block lets escape *)
SearchRaises(resp) ==
    /\ resp.transport = "ok"
    /\ \/ resp.body.top # "obj"
       \/ /\ resp.status = 200
          /\ \/ resp.body.feeds = "null"
             \/ \E i \in 1..Len(resp.body.items) : FromApiRaises(resp.body.items[i])

(* line 307: response_body.get("count", len(feeds)) *)
TotalCount_FromMax(response_body, feeds) ==
    PyGet(response_body, "count", Num(IntText(DEFAULT_MAX_RESULTS)))

TotalCount(response_body, feeds) ==
    PyGet(response_body, "count", Num(IntText(Len(feeds))))

search(api_key, api_secret, search_type, query, max_results, now, resp) ==
    LET request == SearchRequest(api_key, api_secret, search_type, query, max_results, now)
        answered == resp.transport \notin {"timeout", "request_error"}
        status_code == IF answered THEN resp.status ELSE 0
        response_body == IF resp.transport = "ok" THEN resp.body ELSE EmptySearchBody
        ok == resp.transport = "ok" /\ status_code = 200 /\ ~SearchRaises(resp)
        feeds == IF ok THEN response_body.items ELSE <<>>
        error ==
            CASE resp.transport = "timeout" -> Some(<<"Request timed out">>)
              [] resp.transport = "request_error" -> Some(<<"Request failed: ", "e">>)
              [] resp.transport = "not_json" -> Some(<<"Failed to parse response JSON">>)
              [] status_code # 200 ->
                   Some(<<"API error: ", IntText(status_code), " - ">>
                        \o PyGet(response_body, "description", Str(<<"Unknown error">>)).s)
              [] OTHER -> None
    IN [raised |-> SearchRaises(resp),
        request |-> request,
        result |-> SearchResult(search_type, query,
                       [i \in 1..Len(feeds) |-> from_api(feeds[i])],
                       IF ok THEN TotalCount(response_body, feeds) ELSE Num("0"),
                       request,
                       [status_code |-> status_code, body |-> response_body],
                       error)]

(***************************************************************************)
(* Inputs of the sanitizer: every text of at most MaxShortLen characters   *)
(* over a small alphabet, and long texts whose length lies around          *)
(* MAX_QUERY_LENGTH: a run of one character, followed by a short tail,     *)
(* between optional white-space padding.                                   *)
(***************************************************************************)
SanAlphabet == {"a", " ", "<", "|"}

RECURSIVE SeqsUpTo(_, _)
SeqsUpTo(S, n) ==
    IF n = 0 THEN {<<>>}
    ELSE LET shorter == SeqsUpTo(S, n - 1)
         IN shorter \cup {Append(s, c) : s \in shorter, c \in S}

Rep(c, n) == [i \in 1..n |-> c]

ShortInputs == SeqsUpTo(SanAlphabet, MaxShortLen)

LongTails == {<<>>, <<"<">>, <<"<", "|">>, <<"a">>, <<" ", "<">>}

LongInputs ==
    {Rep(" ", l) \o Rep(c, n) \o t \o Rep(" ", r) :
        l \in 0..MaxPad, r \in 0..MaxPad,
        c \in {"a", "<"},
        n \in (MAX_QUERY_LENGTH - LenSlack)..(MAX_QUERY_LENGTH + LenSlack),
        t \in LongTails}

(* INVALID_QUERIES (fixtures.py 125-130) *)
INVALID_QUERIES ==
    <<<<>>,
      <<" ", " ", " ">>,
      Rep("a", 501),
      <<"<", "script", ">", "alert", "(", "1", ")", "<", "/", "script", ">">>>>

SanInputs ==
    ShortInputs \cup LongInputs \cup {INVALID_QUERIES[i] : i \in 1..Len(INVALID_QUERIES)}

(***************************************************************************)
(* The pipeline entry points (run_ai_query_test.py): their environment,    *)
(* the replies of the two services, and the fixture list.                  *)
(***************************************************************************)
(* TEST_QUERIES (fixtures.py 29-121), its first and its thirteenth entry *)
TEST_QUERIES ==
    <<[query |-> <<"recent", " ", "podcasts", " ", "with", " ", "david", " ", "deutsch">>,
       expected_type |-> <<"byperson">>,
       expected_query |-> <<"David", " ", "Deutsch">>],
      [query |-> <<"AI">>, expected_type |-> <<"byterm">>, expected_query |-> <<"AI">>]>>

(* the query argument of run_single_query *)
PipelineQueries == {<<"a">>, <<" ", "<", "a", "|">>, <<"<", ">">>}

(* os.environ ANTHROPIC_API_KEY, PODCASTINDEX_API_KEY and                 *)
(* PODCASTINDEX_API_SECRET (empty: not set), and android/gradle.properties *)
NoEnv == [api_key |-> <<>>, api_secret |-> <<>>]

Configs ==
    [anthropic_key : {None, Some(<<"sk-ant-1">>)},
     gradle : {"missing", "incomplete", "ok"},
     pi_env : {NoEnv, [api_key |-> <<"ENVKEY">>, api_secret |-> <<"ENVSECRET">>]}]

GradleKey == <<"PIKEY">>
GradleSecret == <<"PISECRET">>

(* PodcastIndexClient.__init__ (podcastindex_client.py 147-155): an empty  *)
(* argument is replaced by the environment variable                        *)
PodcastIndexClient(api_key, api_secret, config) ==
    LET k == IF api_key # <<>> THEN api_key ELSE config.pi_env.api_key
        sec == IF api_secret # <<>> THEN api_secret ELSE config.pi_env.api_secret
    IN IF k = <<>> \/ sec = <<>>
       THEN [raised |-> TRUE, exc |-> "ValueError", api_key |-> <<>>, api_secret |-> <<>>]
       ELSE [raised |-> FALSE, exc |-> "", api_key |-> k, api_secret |-> sec]

(* PodcastIndexClient.from_gradle_properties (podcastindex_client.py 166-218) *)
from_gradle_properties(config) ==
    CASE config.gradle = "missing" ->
            [raised |-> TRUE, exc |-> "FileNotFoundError", api_key |-> <<>>, api_secret |-> <<>>]
      [] config.gradle = "incomplete" ->
            [raised |-> TRUE, exc |-> "ValueError", api_key |-> <<>>, api_secret |-> <<>>]
      [] OTHER -> PodcastIndexClient(GradleKey, GradleSecret, config)

ObjectText(st, q) ==
    Spelling[Obj([NoFields EXCEPT !["search_type"] = st, !["query"] = q])]

PipelineReplies ==
    {Reply("timeout", 0, EmptyBody),
     Reply("not_json", 200, NotJsonBody),
     Reply("ok", 500, Body("obj", "absent", "obj", Absent, "obj_msg")),
     Reply("ok", 500, Body("arr", "absent", "obj", Absent, "absent")),
     Reply("ok", 200, TextBody(<<"5">>)),
     Reply("ok", 200, TextBody(ObjectText(Str(<<"byterm">>), Str(<<>>))))}
    \cup {Reply("ok", 200, TextBody(ObjectText(st, Str(<<"Test", " ", "Person">>)))) :
            st \in {Absent, Str(<<"byperson">>), Str(<<"byterm">>), Str(<<"BYPERSON">>),
                    Str(<<"podcast">>)}}

PipelineSearchResponses ==
    {SearchResponse("timeout", 0, EmptySearchBody),
     SearchResponse("request_error", 0, EmptySearchBody),
     SearchResponse("not_json", 500, EmptySearchBody),
     SearchResponse("ok", 500, SearchBody("obj", "absent", <<>>, Absent, Str(<<"Server error">>))),
     SearchResponse("ok", 500, SearchBody("arr", "absent", <<>>, Absent, Absent)),
     SearchResponse("ok", 200, SearchBody("obj", "arr", <<>>, Num("0"), Absent)),
     SearchResponse("ok", 200,
        SearchBody("obj", "arr",
                   <<Feed([title |-> Str(<<"Show">>)]), Feed([id |-> Num("5")])>>,
                   Absent, Absent))}

NoSearchResult ==
    SearchResult(Absent, Absent, <<>>, Num("0"),
                 SearchRequest(<<>>, <<>>, Absent, Absent, DEFAULT_MAX_RESULTS, 0),
                 [status_code |-> 0, body |-> EmptySearchBody], None)

NoSearch == [some |-> FALSE, v |-> NoSearchResult]

(* SearchResult.success (podcastindex_client.py 112-114) *)
search_success(r) == ~r.error.some /\ Len(r.podcasts) >= 0

(* what an entry point hands back for one query: None, or the tuple of the *)
(* QueryResult and the SearchResult (or None)                              *)
Tuple(c_result, s_result) == [kind |-> "tuple", claude |-> c_result, search |-> s_result]
ReturnNone == [kind |-> "None", claude |-> NoResult, search |-> NoSearch]
Unset == [kind |-> "unset", claude |-> NoResult, search |-> NoSearch]

(* one outbound call, as an observer on the wire sees it *)
ModelCall(text, failed) ==
    [svc |-> "model", text |-> Str(text), search_type |-> Absent,
     endpoint |-> "", clean |-> FALSE, failed |-> failed]
SearchCall(request, search_type, failed, now) ==
    [svc |-> "search", text |-> request.params.q, search_type |-> search_type,
     endpoint |-> request.endpoint, clean |-> request.params.clean, failed |-> failed,
     headers |-> request.headers, now |-> now]

VARIABLES
    san_pc, san_in, san_out,        \* one call of sanitize_query
    san_again,                      \* and a second call on what it returned
    norm_pc, norm_in, norm_out,     \* one call of normalize_search_type
    sr_pc, sr_cred, sr_args, sr_resp, sr_ret,
                                    \* one call of PodcastIndexClient.search
    sr_export,                      \* and get_last_request() after it
    iq_pc, iq_key, iq_query, iq_reply, iq_ret, pr_ret,
                                    \* one call of interpret_query and of
                                    \* parse_claude_response on one reply
    history, last_request, last_response,
                                    \* the ClaudeQueryClient's fields
    entry, pc,                      \* the entry point and its position
    config,                         \* environment and configuration file
    query, requested, with_search,  \* arguments and locals of the entry point
    claude_open, pi_open,           \* the two httpx clients
    claude_result, search_result, result, results, fx_idx,
    clock, pi_history,              \* time.time(); PodcastIndexClient._history
    run,                            \* the current run, as observed from outside:
                                    \* its input, its outbound calls, its outcome
    cl_key, cl_call, cl_calls,      \* a session of one ClaudeQueryClient: its key,
                                    \* the latest operation, the calls made so far
    cl_list, cl_export,             \* what get_history and get_last_request gave
    br_pc, br_bridge, br_cmd,       \* one AndroidBridge.send_command: position,
    br_sent, br_ret                 \* bridge, command, transports tried, outcome

sanVars == <<san_pc, san_in, san_out, san_again>>
normVars == <<norm_pc, norm_in, norm_out>>
srVars == <<sr_pc, sr_cred, sr_args, sr_resp, sr_ret, sr_export>>
iqVars == <<iq_pc, iq_key, iq_query, iq_reply, iq_ret, pr_ret>>
clientVars == <<history, last_request, last_response>>
pipeVars ==
    <<entry, pc, config, query, requested, with_search, claude_open, pi_open,
      claude_result, search_result, result, results, fx_idx, clock, pi_history, run>>

sessVars == <<cl_key, cl_call, cl_calls, cl_list, cl_export>>
brVars == <<br_pc, br_bridge, br_cmd, br_sent, br_ret>>

vars == <<sanVars, normVars, srVars, iqVars, clientVars, pipeVars, sessVars, brVars>>

SanIdle == san_pc = "idle" /\ san_in = <<>> /\ san_out = None /\ san_again = None

NormIdle == norm_pc = "idle" /\ norm_in = <<>> /\ norm_out = <<>>

SrIdle ==
    /\ sr_pc = "idle"
    /\ sr_cred = [api_key |-> <<>>, api_secret |-> <<>>]
    /\ sr_args = [search_type |-> Absent, query |-> Absent,
                  max_results |-> DEFAULT_MAX_RESULTS, now |-> 0]
    /\ sr_resp = SearchResponse("timeout", 0, EmptySearchBody)
    /\ sr_ret = [raised |-> FALSE, request |-> NoSearchResult.request,
                 result |-> NoSearchResult]
    /\ sr_export = [some |-> FALSE, v |-> to_dict(NoSearchResult.request)]

IqIdle ==
    /\ iq_pc = [interpret |-> "idle", parse |-> "idle"]
    /\ iq_key = <<>> /\ iq_query = <<>>
    /\ iq_reply = Reply("timeout", 0, EmptyBody)
    /\ iq_ret = CallOutcome(FALSE, NoResult)
    /\ pr_ret = ReturnedNone

SessIdle ==
    /\ cl_key = <<>> /\ cl_calls = 0
    /\ cl_call = NoOperation
    /\ cl_list = NoList
    /\ cl_export = NoExport

BrIdle ==
    /\ br_pc = "idle"
    /\ br_bridge = [use_adb_fallback |-> TRUE]
    /\ br_cmd = [action |-> "", params |-> <<>>]
    /\ br_sent = <<>>
    /\ br_ret = NotReturned

(* ClaudeQueryClient.__init__ (claude_client.py 123-125) *)
ClientInit == history = <<>> /\ last_request = NoRequest /\ last_response = NoResponse

NewRun(q, ws) ==
    [query |-> q, requested |-> ws, calls |-> <<>>, status |-> "running",
     interpreted |-> FALSE, claude |-> NoResult, result |-> Unset]

PipeStart(e, c, q, ws) ==
    /\ entry = e /\ pc = "start" /\ config = c
    /\ query = q /\ requested = ws /\ with_search = ws
    /\ claude_open = FALSE /\ pi_open = "none"
    /\ claude_result = NoResult /\ search_result = NoSearch
    /\ result = Unset /\ results = <<>> /\ fx_idx = 0
    /\ clock = 2 /\ pi_history = <<>>
    /\ run = NewRun(q, ws)

PipeIdle ==
    PipeStart("none", [anthropic_key |-> None, gradle |-> "missing", pi_env |-> NoEnv],
              <<>>, FALSE)

(***************************************************************************)
(* SpecSan: sanitize_query applied to one input.                           *)
(***************************************************************************)
SanInit ==
    /\ san_pc = "call" /\ san_in \in SanInputs /\ san_out = None /\ san_again = None
    /\ NormIdle /\ IqIdle /\ SrIdle /\ ClientInit /\ PipeIdle /\ SessIdle /\ BrIdle

SanitizeCall ==
    /\ san_pc = "call"
    /\ san_out' = sanitize_query(san_in)
    /\ san_pc' = "returned"
    /\ UNCHANGED <<san_in, san_again, normVars, srVars, iqVars, clientVars, pipeVars,
                   sessVars, brVars>>

(* sanitize_query(sanitize_query(x)) for an x that was not rejected *)
SanitizeAgain ==
    /\ san_pc = "returned" /\ san_out.some
    /\ san_again' = sanitize_query(san_out.val)
    /\ san_pc' = "again"
    /\ UNCHANGED <<san_in, san_out, normVars, srVars, iqVars, clientVars, pipeVars,
                   sessVars, brVars>>

SanNext == SanitizeCall \/ SanitizeAgain

SpecSan == SanInit /\ [][SanNext]_vars

(***************************************************************************)
(* SpecNorm: normalize_search_type applied to one text of at most          *)
(* MaxTypeLen symbols: the tokens in lower and upper case, another word    *)
(* and white space.                                                        *)
(***************************************************************************)
TypeAlphabet ==
    {"byperson", "bytitle", "byterm", "BYPERSON", "ByTitle", "podcast", " ", "\t"}

TypeInputs == SeqsUpTo(TypeAlphabet, MaxTypeLen)

NormInit ==
    /\ norm_pc = "call" /\ norm_in \in TypeInputs /\ norm_out = <<>>
    /\ SanIdle /\ IqIdle /\ SrIdle /\ ClientInit /\ PipeIdle /\ SessIdle /\ BrIdle

NormalizeCall ==
    /\ norm_pc = "call"
    /\ norm_out' = normalize_search_type(norm_in)
    /\ norm_pc' = "returned"
    /\ UNCHANGED <<norm_in, sanVars, srVars, iqVars, clientVars, pipeVars, sessVars, brVars>>

NormNext == NormalizeCall

SpecNorm == NormInit /\ [][NormNext]_vars

(***************************************************************************)
(* SpecSearch: one call of search on a new PodcastIndexClient, answered by *)
(* one response.  The items of "feeds" are complete, empty or partial      *)
(* objects, an object whose description is a number, and a string.         *)
(***************************************************************************)
FullFeed ==
    Feed([id |-> Num("5"), title |-> Str(<<"Show">>), author |-> Str(<<"Host">>),
          description |-> Str(Rep("d", 201)), episodeCount |-> Num("3"),
          artwork |-> Str(<<"art.png">>), image |-> Str(<<"img.png">>),
          url |-> Str(<<"https://feed">>), language |-> Str(<<"en">>)])

ImageFeed == Feed([image |-> Str(<<"img.png">>), description |-> Null])

ItemLists ==
    {<<>>, <<Feed(<<>>)>>, <<FullFeed, Feed(<<>>), ImageFeed>>,
     <<ImageFeed, Feed([description |-> Num("5")])>>,
     <<Feed(<<>>), NonObjectFeed>>}

SearchBodies ==
    {SearchBody("obj", "arr", items, count, Absent) :
        items \in ItemLists, count \in {Absent, Num("7")}}
    \cup {SearchBody("obj", "absent", <<>>, count, Absent) : count \in {Absent, Num("7")}}
    \cup {SearchBody("obj", "null", <<>>, Absent, Absent),
          SearchBody("obj", "absent", <<>>, Absent, Str(<<"Server error">>)),
          SearchBody("arr", "absent", <<>>, Absent, Absent)}

SearchResponses ==
    {SearchResponse("timeout", 0, EmptySearchBody),
     SearchResponse("request_error", 0, EmptySearchBody),
     SearchResponse("not_json", 200, EmptySearchBody),
     SearchResponse("not_json", 500, EmptySearchBody)}
    \cup {SearchResponse("ok", st, b) : st \in {200, 201, 500}, b \in SearchBodies}

LongKey == <<"P", "I", "K", "E", "Y", "1", "2", "3", "4">>

Credentials ==
    [api_key : {LongKey, [LongKey EXCEPT ![9] = "5"], [LongKey EXCEPT ![1] = "Q"], <<"k">>},
     api_secret : {<<"S", "1">>, <<"S", "2">>}]

SearchArgs ==
    [search_type : {Str(<<"byperson">>), Str(<<"bytitle">>), Str(<<"byterm">>),
                    Str(<<"podcast">>)},
     query : {Str(<<"Test", " ", "Person">>)},
     max_results : {1, DEFAULT_MAX_RESULTS},
     now : {2, 4}]

SearchInit ==
    /\ sr_pc = "call"
    /\ sr_cred \in Credentials /\ sr_args \in SearchArgs /\ sr_resp \in SearchResponses
    /\ sr_ret = [raised |-> FALSE, request |-> NoSearchResult.request,
                 result |-> NoSearchResult]
    /\ sr_export = [some |-> FALSE, v |-> to_dict(NoSearchResult.request)]
    /\ SanIdle /\ NormIdle /\ IqIdle /\ ClientInit /\ PipeIdle /\ SessIdle /\ BrIdle

SearchCallAction ==
    /\ sr_pc = "call"
    /\ sr_ret' = search(sr_cred.api_key, sr_cred.api_secret, sr_args.search_type,
                        sr_args.query, sr_args.max_results, sr_args.now, sr_resp)
    /\ sr_pc' = IF SearchRaises(sr_resp) THEN "raised" ELSE "returned"
    /\ UNCHANGED <<sr_cred, sr_args, sr_resp, sr_export, sanVars, normVars, iqVars,
                   clientVars, pipeVars, sessVars, brVars>>

(* get_last_request (lines 349-351): line 281 kept the request before it  *)
(* was sent, so there is one whether search returned or raised             *)
GetLastSearchRequest ==
    /\ sr_pc \in {"returned", "raised"} /\ ~sr_export.some
    /\ sr_export' = [some |-> TRUE, v |-> to_dict(sr_ret.request)]
    /\ UNCHANGED <<sr_pc, sr_cred, sr_args, sr_resp, sr_ret, sanVars, normVars, iqVars,
                   clientVars, pipeVars, sessVars, brVars>>

SearchNext == SearchCallAction \/ GetLastSearchRequest

SpecSearch == SearchInit /\ [][SearchNext]_vars

(***************************************************************************)
(* SpecInterp: one reply of the model service, given to                    *)
(* parse_claude_response and to interpret_query of a new client.           *)
(***************************************************************************)
InterpInit ==
    /\ iq_pc = [interpret |-> "call", parse |-> "call"]
    /\ iq_key \in ApiKeys
    /\ iq_query \in ClientQueries
    /\ iq_reply \in Replies
    /\ iq_ret = CallOutcome(FALSE, NoResult)
    /\ pr_ret = ReturnedNone
    /\ SanIdle /\ NormIdle /\ SrIdle /\ ClientInit /\ PipeIdle /\ SessIdle /\ BrIdle

ParseCall ==
    /\ iq_pc.parse = "call"
    /\ pr_ret' = parse_claude_response(iq_reply.body)
    /\ iq_pc' = [iq_pc EXCEPT !.parse = "returned"]
    /\ UNCHANGED <<iq_key, iq_query, iq_reply, iq_ret, sanVars, normVars, srVars, clientVars, pipeVars,
                   sessVars, brVars>>

(* lines 157, 190: the logs are kept before the reply is parsed;           *)
(* line 222: the result is appended when the call returns.                 *)
ClientCall(o) ==
    /\ last_request' = o.result.request
    /\ last_response' = o.result.response
    /\ history' = IF o.raised THEN history ELSE Append(history, o.result)

InterpretCall ==
    /\ iq_pc.interpret = "call"
    /\ LET o == interpret_query(iq_key, iq_query, iq_reply)
       IN /\ iq_ret' = o
          /\ ClientCall(o)
          /\ iq_pc' = [iq_pc EXCEPT !.interpret = IF o.raised THEN "raised" ELSE "returned"]
    /\ UNCHANGED <<iq_key, iq_query, iq_reply, pr_ret, sanVars, normVars, srVars, pipeVars,
                   sessVars, brVars>>

InterpNext == ParseCall \/ InterpretCall

SpecInterp == InterpInit /\ [][InterpNext]_vars

(***************************************************************************)
(* SpecClient: a session of one ClaudeQueryClient.  The caller interprets  *)
(* queries, reads and clears the history, changes the list get_history     *)
(* gave it, and exports the last request.                                  *)
(***************************************************************************)
MaxCalls == 2

SessionKeys == {<<"sk-ant-1">>, <<"sk-ant-2">>}

SessionReplies ==
    { Reply("ok", 200, TextBody(ObjectText(Str(<<"byterm">>), Str(<<"Test", " ", "Person">>)))),
      Reply("timeout", 0, EmptyBody),
      Reply("request_error", 0, EmptyBody),
      Reply("not_json", 200, NotJsonBody),
      Reply("ok", 500, Body("obj", "absent", "obj", Absent, "obj_msg")),
      Reply("ok", 200, TextBody(<<"5">>)),
      Reply("ok", 500, Body("arr", "absent", "obj", Absent, "absent")) }

ClientSessionInit ==
    /\ cl_key \in SessionKeys /\ cl_calls = 0
    /\ cl_call = Operation("new", <<>>, Reply("timeout", 0, EmptyBody))
    /\ cl_list = NoList
    /\ cl_export = NoExport
    /\ ClientInit
    /\ SanIdle /\ NormIdle /\ SrIdle /\ IqIdle /\ PipeIdle /\ BrIdle

(* A list that is the client's own list changes with it. *)
Shared(l, h) == IF l.alias THEN [l EXCEPT !.items = h] ELSE l

(* client.interpret_query(q), lines 129-223 *)
SessInterpret ==
    /\ cl_calls < MaxCalls
    /\ \E q \in ClientQueries, reply \in SessionReplies :
          LET o == interpret_query(cl_key, q, reply)
          IN /\ ClientCall(o)
             /\ cl_call' = Operation(IF o.raised THEN "interpret_raised" ELSE "interpret",
                                     q, reply)
             /\ cl_list' = Shared(cl_list, IF o.raised THEN history ELSE Append(history, o.result))
    /\ cl_calls' = cl_calls + 1
    /\ UNCHANGED <<cl_key, cl_export, sanVars, normVars, srVars, iqVars, pipeVars, brVars>>

(* client.clear_history(), lines 237-239 *)
SessClearHistory ==
    /\ history # <<>>
    /\ history' = <<>>
    /\ cl_list' = Shared(cl_list, <<>>)
    /\ cl_call' = Operation("clear_history", <<>>, cl_call.reply)
    /\ UNCHANGED <<cl_key, cl_calls, cl_export, last_request, last_response,
                   sanVars, normVars, srVars, iqVars, pipeVars, brVars>>

(* returned = client.get_history(), lines 233-235 *)
SessGetHistory ==
    /\ cl_call.op \in {"interpret", "clear_history"}
    /\ cl_list' = get_history(history)
    /\ cl_call' = Operation("get_history", <<>>, cl_call.reply)
    /\ UNCHANGED <<cl_key, cl_calls, cl_export, clientVars,
                   sanVars, normVars, srVars, iqVars, pipeVars, brVars>>

(* the caller empties the list it was given, or appends to it *)
SessChangeReturned ==
    /\ cl_list.some /\ ~cl_list.changed
    /\ \E items \in {<<>>, Append(cl_list.items, NoResult)} :
          /\ items # cl_list.items
          /\ cl_list' = [cl_list EXCEPT !.items = items, !.changed = TRUE]
          /\ history' = IF cl_list.alias THEN items ELSE history
    /\ cl_call' = Operation("change_returned", <<>>, cl_call.reply)
    /\ UNCHANGED <<cl_key, cl_calls, cl_export, last_request, last_response,
                   sanVars, normVars, srVars, iqVars, pipeVars, brVars>>

(* client.get_last_request(), lines 225-227 *)
SessGetLastRequest ==
    /\ cl_call.op \in {"new", "interpret", "interpret_raised"}
    /\ cl_export' = get_last_request(last_request)
    /\ cl_call' = Operation("get_last_request", cl_call.query, cl_call.reply)
    /\ UNCHANGED <<cl_key, cl_calls, cl_list, clientVars,
                   sanVars, normVars, srVars, iqVars, pipeVars, brVars>>

ClientNext ==
    \/ SessInterpret
    \/ SessClearHistory
    \/ SessGetHistory
    \/ SessChangeReturned
    \/ SessGetLastRequest

SpecClient == ClientSessionInit /\ [][ClientNext]_vars

(***************************************************************************)
(* SpecBridge: one command given to AndroidBridge.send_command             *)
(* (server.py 45-67).  SESSION_KEY is never assigned, so no request        *)
(* carries an authToken.                                                   *)
(***************************************************************************)
Commands ==
    { [action |-> "pausePlayback", params |-> <<>>],
      [action |-> "resumePlayback", params |-> <<>>],
      [action |-> "getPlaybackStatus", params |-> <<>>],
      [action |-> "getSubscribedPodcasts", params |-> <<>>],
      [action |-> "skipForward", params |-> <<"seconds", "30">>],
      [action |-> "markAsPlayed", params |-> <<"episodeId", "7">>] }

(* What the other end of the socket does with one connection. *)
SocketPeers ==
    { [connect |-> "ConnectionRefusedError", line |-> <<>>],
      [connect |-> "ok", line |-> <<"{", "status", ":", "success", "}">>],
      [connect |-> "ok", line |-> <<"{", "status", ":", "error", "}">>],
      [connect |-> "ok", line |-> <<"{", "}">>],
      [connect |-> "ok", line |-> <<"[", "]">>],
      [connect |-> "ok", line |-> <<"null">>],
      [connect |-> "ok", line |-> <<"ok">>],
      [connect |-> "ok", line |-> <<>>] }

(* What subprocess.run does with the adb command line. *)
AdbRuns ==
    { [raised |-> FALSE, returncode |-> 0, stderr |-> "", error |-> ""],
      [raised |-> FALSE, returncode |-> 1, stderr |-> "no devices", error |-> ""],
      [raised |-> TRUE, returncode |-> 0, stderr |-> "", error |-> "FileNotFoundError"],
      [raised |-> TRUE, returncode |-> 0, stderr |-> "", error |-> "TimeoutExpired"] }

Attempt(via, action, failed) == [via |-> via, action |-> action, failed |-> failed]

BridgeInit ==
    /\ br_pc = "call"
    /\ br_bridge \in [use_adb_fallback : BOOLEAN]
    /\ br_cmd \in Commands
    /\ br_sent = <<>>
    /\ br_ret = NotReturned
    /\ ClientInit /\ SessIdle
    /\ SanIdle /\ NormIdle /\ SrIdle /\ IqIdle /\ PipeIdle

(* lines 47-66: the request is built and given to the socket; the reply is *)
(* returned as json.loads read it, and any Exception is logged             *)
SendViaSocket ==
    /\ br_pc = "call"
    /\ \E peer \in SocketPeers :
          LET o == _send_via_socket(peer)
          IN /\ br_sent' = Append(br_sent, Attempt("socket", br_cmd.action, o.raised))
             /\ IF ~o.raised
                THEN br_pc' = "returned" /\ br_ret' = o
                ELSE IF br_bridge.use_adb_fallback
                THEN br_pc' = "fallback" /\ UNCHANGED br_ret
                ELSE br_pc' = "raised" /\ br_ret' = o
    /\ UNCHANGED <<br_bridge, br_cmd, sanVars, normVars, srVars, iqVars, clientVars,
                   pipeVars, sessVars>>

(* lines 65-66: return await self._send_via_adb(action, params) *)
SendViaAdb ==
    /\ br_pc = "fallback"
    /\ \E adb \in AdbRuns :
          LET o == _send_via_adb(br_cmd.action, adb)
          IN /\ br_sent' = Append(br_sent, Attempt("adb", br_cmd.action,
                                                   o.v.status # "success"))
             /\ br_ret' = o
    /\ br_pc' = "returned"
    /\ UNCHANGED <<br_bridge, br_cmd, sanVars, normVars, srVars, iqVars, clientVars,
                   pipeVars, sessVars>>

BridgeNext == SendViaSocket \/ SendViaAdb

SpecBridge == BridgeInit /\ [][BridgeNext]_vars

(***************************************************************************)
(* Spec: run_single_query and run_fixtures (run_ai_query_test.py).         *)
(***************************************************************************)
Init ==
    /\ \E e \in {"single", "fixtures"}, c \in Configs, ws \in BOOLEAN :
          \E q \in IF e = "single" THEN PipelineQueries ELSE {TEST_QUERIES[1].query} :
              PipeStart(e, c, q, ws)
    /\ SanIdle /\ NormIdle /\ IqIdle /\ SrIdle /\ ClientInit /\ SessIdle /\ BrIdle

(* lines 42-45 and 53; 123-129 *)
CheckApiKey ==
    /\ pc = "start"
    /\ IF ~config.anthropic_key.some
       THEN /\ pc' = "exit"
            /\ run' = [run EXCEPT !.status = "exit"]
            /\ UNCHANGED claude_open
       ELSE /\ claude_open' = TRUE
            /\ pc' = IF entry = "single" THEN "interpret" ELSE "f_build"
            /\ UNCHANGED run
    /\ UNCHANGED <<entry, config, query, requested, with_search, pi_open, claude_result,
                   search_result, result, results, fx_idx, clock, pi_history,
                   sanVars, normVars, srVars, iqVars, clientVars, sessVars, brVars>>

(* the effect of claude_client.interpret_query(q) on the run *)
Interpreted(o) ==
    [run EXCEPT !.calls = Append(@, ModelCall(o.sent, o.raised \/ ~success(o.result))),
                !.interpreted = ~o.raised,
                !.claude = o.result,
                !.status = IF o.raised THEN "raised" ELSE @]

(* line 54 has no loop around it: the reply is taken as it comes *)
AfterInterpret_Retry(o) ==
    IF o.raised THEN "raised"
    ELSE IF ~success(o.result) /\ run.calls = <<>> THEN "interpret" ELSE "branch"

AfterInterpret(o) == IF o.raised THEN "raised" ELSE "branch"

(* lines 53-54: the with block closes the client on return and on raise *)
SingleInterpret ==
    /\ entry = "single" /\ pc = "interpret"
    /\ \E reply \in PipelineReplies :
          LET o == interpret_query(config.anthropic_key.val, query, reply)
          IN /\ ClientCall(o)
             /\ claude_result' = IF o.raised THEN claude_result ELSE o.result
             /\ run' = Interpreted(o)
             /\ pc' = AfterInterpret(o)
    /\ claude_open' = FALSE
    /\ UNCHANGED <<entry, config, query, requested, with_search, pi_open, search_result,
                   result, results, fx_idx, clock, pi_history, sanVars, normVars, srVars, iqVars,
                   sessVars, brVars>>

Finished(r) == [run EXCEPT !.status = "returned", !.result = r]

(* line 61 *)
SearchWanted_Always == claude_result.interpretation.some

SearchWanted == with_search /\ claude_result.interpretation.some

(* lines 56-61 and 81-84 *)
SingleBranch ==
    /\ entry = "single" /\ pc = "branch"
    /\ IF ~success(claude_result)
       THEN result' = ReturnNone /\ pc' = "done" /\ run' = Finished(ReturnNone)
       ELSE IF SearchWanted
       THEN pc' = "build" /\ UNCHANGED <<result, run>>
       ELSE /\ result' = Tuple(claude_result, NoSearch)
            /\ pc' = "done"
            /\ run' = Finished(Tuple(claude_result, NoSearch))
    /\ UNCHANGED <<entry, config, query, requested, with_search, claude_open, pi_open,
                   claude_result, search_result, results, fx_idx, clock, pi_history,
                   sanVars, normVars, srVars, iqVars, clientVars, sessVars, brVars>>

(* lines 67-68 and 78-80 *)
SingleBuildSearchClient ==
    /\ entry = "single" /\ pc = "build"
    /\ IF from_gradle_properties(config).raised
       THEN /\ result' = Tuple(claude_result, NoSearch)
            /\ pc' = "done"
            /\ run' = Finished(Tuple(claude_result, NoSearch))
            /\ UNCHANGED pi_open
       ELSE pi_open' = "open" /\ pc' = "search" /\ UNCHANGED <<result, run>>
    /\ UNCHANGED <<entry, config, query, requested, with_search, claude_open,
                   claude_result, search_result, results, fx_idx, clock, pi_history,
                   sanVars, normVars, srVars, iqVars, clientVars, sessVars, brVars>>

(* pi_client.search(search_type=..., query=...) with the interpretation of *)
(* claude_result; line 346: the result is appended when the call returns   *)
SearchOutcome(resp) ==
    LET cred == from_gradle_properties(config)
    IN search(cred.api_key, cred.api_secret,
              claude_result.interpretation.v.search_type,
              claude_result.interpretation.v.query, DEFAULT_MAX_RESULTS, clock, resp)

Searched(o) ==
    [run EXCEPT !.calls = Append(@, SearchCall(o.request, o.result.search_type,
                                               o.raised \/ ~search_success(o.result),
                                               clock)),
                !.status = IF o.raised THEN "raised" ELSE @]

(* lines 68-76: the with block closes the client on return and on raise *)
SingleSearch ==
    /\ entry = "single" /\ pc = "search"
    /\ \E resp \in PipelineSearchResponses :
          LET o == SearchOutcome(resp)
              r == Tuple(claude_result, [some |-> TRUE, v |-> o.result])
          IN IF o.raised
             THEN /\ pc' = "raised"
                  /\ run' = Searched(o)
                  /\ UNCHANGED <<search_result, result, pi_history>>
             ELSE /\ search_result' = r.search
                  /\ pi_history' = Append(pi_history, o.result)
                  /\ result' = r
                  /\ pc' = "done"
                  /\ run' = [Searched(o) EXCEPT !.status = "returned", !.result = r]
    /\ pi_open' = "closed"
    /\ \E dt \in {1, 2} : clock' = clock + dt
    /\ UNCHANGED <<entry, config, query, requested, with_search, claude_open,
                   claude_result, results, fx_idx, sanVars, normVars, srVars, iqVars, clientVars,
                   sessVars, brVars>>

(* lines 131-140 *)
FxBuildSearchClient ==
    /\ entry = "fixtures" /\ pc = "f_build"
    /\ IF with_search /\ ~from_gradle_properties(config).raised
       THEN pi_open' = "open" /\ UNCHANGED with_search
       ELSE with_search' = FALSE /\ UNCHANGED pi_open
    /\ fx_idx' = 1
    /\ pc' = "f_interpret"
    /\ UNCHANGED <<entry, config, query, requested, claude_open, claude_result,
                   search_result, result, results, clock, pi_history, run,
                   sanVars, normVars, srVars, iqVars, clientVars, sessVars, brVars>>

(* lines 142-149: the next fixture begins a run *)
FxInterpret ==
    /\ entry = "fixtures" /\ pc = "f_interpret"
    /\ LET q == TEST_QUERIES[fx_idx].query
       IN /\ query' = q
          /\ \E reply \in PipelineReplies :
                LET o == interpret_query(config.anthropic_key.val, q, reply)
                    started == NewRun(q, requested)
                IN /\ ClientCall(o)
                   /\ claude_result' = IF o.raised THEN claude_result ELSE o.result
                   /\ run' = [started EXCEPT
                                !.calls = <<ModelCall(o.sent, o.raised \/ ~success(o.result))>>,
                                !.interpreted = ~o.raised,
                                !.claude = o.result,
                                !.status = IF o.raised THEN "raised" ELSE @]
                   /\ pc' = IF o.raised THEN "raised" ELSE "f_search"
    /\ UNCHANGED <<entry, config, requested, with_search, claude_open, pi_open,
                   search_result, result, results, fx_idx, clock, pi_history,
                   sanVars, normVars, srVars, iqVars, sessVars, brVars>>

NextFixture == IF fx_idx < Len(TEST_QUERIES) THEN "f_interpret" ELSE "f_finish"

(* lines 151-159 *)
FxSearch ==
    /\ entry = "fixtures" /\ pc = "f_search"
    /\ IF with_search /\ pi_open = "open" /\ success(claude_result)
       THEN \E resp \in PipelineSearchResponses :
               LET o == SearchOutcome(resp)
                   r == Tuple(claude_result, [some |-> TRUE, v |-> o.result])
               IN /\ \E dt \in {1, 2} : clock' = clock + dt
                  /\ IF o.raised
                     THEN /\ pc' = "raised"
                          /\ run' = Searched(o)
                          /\ UNCHANGED <<search_result, results, fx_idx, pi_history>>
                     ELSE /\ search_result' = r.search
                          /\ pi_history' = Append(pi_history, o.result)
                          /\ results' = Append(results, r)
                          /\ run' = [Searched(o) EXCEPT !.status = "returned", !.result = r]
                          /\ fx_idx' = fx_idx + 1
                          /\ pc' = NextFixture
       ELSE /\ search_result' = NoSearch
            /\ results' = Append(results, Tuple(claude_result, NoSearch))
            /\ run' = Finished(Tuple(claude_result, NoSearch))
            /\ fx_idx' = fx_idx + 1
            /\ pc' = NextFixture
            /\ UNCHANGED <<clock, pi_history>>
    /\ UNCHANGED <<entry, config, query, requested, with_search, claude_open, pi_open,
                   claude_result, result, sanVars, normVars, srVars, iqVars, clientVars,
                   sessVars, brVars>>

(* lines 161-221: the summary is printed; pi_client._client is closed *)
FxFinish ==
    /\ entry = "fixtures" /\ pc = "f_finish"
    /\ pi_open' = IF pi_open = "open" THEN "closed" ELSE pi_open
    /\ pc' = "done"
    /\ UNCHANGED <<entry, config, query, requested, with_search, claude_open,
                   claude_result, search_result, result, results, fx_idx, clock,
                   pi_history, run, sanVars, normVars, srVars, iqVars, clientVars,
                   sessVars, brVars>>

Next ==
    \/ CheckApiKey
    \/ SingleInterpret
    \/ SingleBranch
    \/ SingleBuildSearchClient
    \/ SingleSearch
    \/ FxBuildSearchClient
    \/ FxInterpret
    \/ FxSearch
    \/ FxFinish

Spec == Init /\ [][Next]_vars

(***************************************************************************)
(*                              The claims                                 *)
(***************************************************************************)

(* the object a reply spells in its first text block, if it spells one *)
SpellsObject(body, o) ==
    /\ body.top = "obj" /\ body.content = "arr" /\ body.block0 = "obj"
    /\ body.text.t = "str"
    /\ body.text.s \in Wrapped[o]

(* C2: model output never crashes interpretation: for every reply body and *)
(* status parse_claude_response returns an Interpretation or None and      *)
(* interpret_query returns a QueryResult; neither raises.                  *)
C2_NeverRaises ==
    /\ iq_pc.parse = "returned" => pr_ret.out \in {"interp", "none"}
    /\ iq_pc.interpret # "call" => ~iq_ret.raised

(* C4 as stated: the Interpretation's category is the value of the         *)
(* recovered object's "category" member, and byterm when it is absent.     *)
C4_CategoryMember ==
    \A o \in InnerObjects :
        (iq_pc.parse = "returned" /\ SpellsObject(iq_reply.body, o) /\ pr_ret.out = "interp")
            => pr_ret.interp.search_type = PyGet(o.f, "category", Str(<<"byterm">>))

(* C4 as amended: the Interpretation's search type is the value of the     *)
(* recovered object's "search_type" member, and byterm when that member is *)
(* absent; the query is the object's "query" member; a "category" member   *)
(* is not read.                                                            *)
C4_SearchTypeMember ==
    \A o \in InnerObjects :
        (iq_pc.parse = "returned" /\ SpellsObject(iq_reply.body, o) /\ Truthy(o.f["query"]))
            => /\ pr_ret.out = "interp"
               /\ pr_ret.interp.search_type = PyGet(o.f, "search_type", Str(<<"byterm">>))
               /\ pr_ret.interp.query = o.f["query"]

C4_Witness ==
    /\ iq_pc.parse = "returned"
    /\ \E o \in InnerObjects :
          /\ SpellsObject(iq_reply.body, o)
          /\ o.f["search_type"] = Absent
          /\ o.f["category"] = Str(<<"byperson">>)
          /\ o.f["query"] = Str(<<"Test", " ", "Person">>)
    /\ pr_ret.out = "interp"
    /\ pr_ret.interp.search_type = Str(<<"byterm">>)

(* C5: a failed interpretation names its failure point; in particular a    *)
(* reply whose object has an empty query (missing query) is reported with  *)
(* another reason than a reply whose text is no JSON (malformed reply).    *)
MalformedReply ==
    Reply("ok", 200, TextBody(<<"{", "\"", "search_type", "\"", ":", " ", "\"", "byterm",
                                "\"", ",", " ", "\"", "query", "\"", ":", " ", "incomplete">>))

C5_DistinctReasons ==
    \A o \in InnerObjects :
        (/\ iq_pc.interpret = "returned"
         /\ iq_reply.transport = "ok" /\ iq_reply.status = 200
         /\ SpellsObject(iq_reply.body, o)
         /\ o.f["query"] = Str(<<>>))
            => /\ iq_ret.result.error.some
               /\ iq_ret.result.error
                    # interpret_query(iq_key, iq_query, MalformedReply).result.error

(* C10: the bound of MAX_QUERY_LENGTH characters is applied to the trimmed *)
(* input before any character is deleted: a trimmed input longer than the  *)
(* bound is rejected whatever deletion would leave; a trimmed input of     *)
(* exactly the bound, or a longer input whose trimmed part is within the   *)
(* bound, is not rejected for its length (it is returned when it holds a   *)
(* character that is neither white space nor one of the five).             *)
HasPlainCharacter(s) == \E i \in 1..Len(s) : s[i] \notin Dangerous \cup Whitespace

C10_BoundOnTrimmedInput ==
    san_pc # "call" =>
        LET trimmed == strip(san_in)
        IN /\ Len(trimmed) > MAX_QUERY_LENGTH => san_out = None
           /\ (Len(trimmed) = MAX_QUERY_LENGTH /\ HasPlainCharacter(trimmed))
                => san_out.some
           /\ (Len(san_in) > MAX_QUERY_LENGTH /\ Len(trimmed) <= MAX_QUERY_LENGTH
                 /\ HasPlainCharacter(trimmed))
                => san_out.some

C10_Witness ==
    /\ san_pc = "returned"
    /\ Len(strip(san_in)) > MAX_QUERY_LENGTH
    /\ Len(RemoveDangerous(strip(san_in))) <= MAX_QUERY_LENGTH
    /\ HasPlainCharacter(san_in)
    /\ san_out = None

(***************************************************************************)
(* Claims about the entry points, read off the run as an observer sees it. *)
(***************************************************************************)
ModelCalls == {i \in 1..Len(run.calls) : run.calls[i].svc = "model"}
SearchCalls == {i \in 1..Len(run.calls) : run.calls[i].svc = "search"}

(* C1: the text of every model call of a run is the sanitizer's output for *)
(* the run's raw input, and a run whose input the sanitizer rejects makes  *)
(* no outbound call at all.                                                *)
C1_SanitizedBeforeSend ==
    LET sanitized == sanitize_query(run.query)
    IN /\ \A i \in ModelCalls :
             sanitized.some /\ run.calls[i].text = Str(sanitized.val)
       /\ ~sanitized.some => run.calls = <<>>

(* C3: every search call carries one of the three categories, that         *)
(* category is the Normalizer's value of the interpreter's category, and   *)
(* the search client routes it without a fallback of its own.              *)
C3_SearchCategoryNormalized ==
    \A i \in SearchCalls :
        LET call == run.calls[i]
            given == run.claude.interpretation.v.search_type
        IN /\ call.search_type.t = "str"
           /\ validate_search_type(call.search_type.s)
           /\ given.t = "str" => call.search_type.s = normalize_search_type(given.s)
           /\ call.endpoint = call.search_type.s[1]

(* the error a returned result shows: the interpreter's, else the search's *)
ResultError(r) ==
    IF r.kind # "tuple" THEN None
    ELSE IF r.claude.error.some THEN r.claude.error
    ELSE IF r.search.some THEN r.search.v.error
    ELSE None

Completed(r) ==
    /\ r.kind = "tuple" /\ success(r.claude)
    /\ run.requested => r.search.some /\ search_success(r.search.v)

(* C6: a returned result has an error exactly when the run did not         *)
(* complete the requested stages, and after a failed interpretation the    *)
(* result carries the interpreter's reason unchanged.                      *)
C6_ErrorIffIncomplete ==
    run.status = "returned" =>
        /\ ResultError(run.result).some <=> ~Completed(run.result)
        /\ ~success(run.claude) =>
              /\ run.claude.error.some
              /\ run.result.kind = "tuple"
              /\ run.result.claude.error = run.claude.error

SearchFailed ==
    /\ SearchCalls # {} /\ success(run.claude)
    /\ run.calls[Len(run.calls)].svc = "search"
    /\ run.calls[Len(run.calls)].failed

(* C7: when the interpretation succeeded and the requested search failed,  *)
(* the run returns a result with both the Interpretation and the search    *)
(* error.                                                                  *)
C7_BothInterpretationAndSearchError ==
    SearchFailed =>
        /\ run.status = "returned"
        /\ run.result.kind = "tuple"
        /\ run.result.claude.interpretation = run.claude.interpretation
        /\ run.result.search.some
        /\ run.result.search.v.error.some

(* C8: a search call is made only in a run that requested search and only *)
(* after the model call of that run returned a successful interpretation.  *)
C8_SearchOnlyAfterSuccess ==
    \A i \in SearchCalls :
        /\ run.requested
        /\ run.interpreted /\ success(run.claude)
        /\ \E j \in ModelCalls : j < i /\ ~run.calls[j].failed

C8_Witness ==
    /\ run.status = "returned" /\ SearchCalls # {}
    /\ run.result.search.some

(* C9: a run makes at most one model call and at most one search call, and *)
(* a failed call is the last outbound call of its run.                     *)
C9_NoRetry ==
    /\ Cardinality(ModelCalls) <= 1
    /\ Cardinality(SearchCalls) <= 1
    /\ \A i \in 1..Len(run.calls) : run.calls[i].failed => i = Len(run.calls)

C9_Witness ==
    /\ run.status = "returned" /\ run.requested
    /\ Len(run.calls) = 1 /\ run.calls[1].failed


(***************************************************************************)
(* Claims about the sanitizer, stated on the characters of the input.      *)
(***************************************************************************)
NonWhite(s) == {i \in 1..Len(s) : s[i] \notin Whitespace}
Plain(s) == {i \in 1..Len(s) : s[i] \notin Dangerous \cup Whitespace}
Lowest(S) == CHOOSE i \in S : \A j \in S : i <= j
Highest(S) == CHOOSE i \in S : \A j \in S : j <= i
TrimmedLen(s) == IF NonWhite(s) = {} THEN 0 ELSE Highest(NonWhite(s)) - Lowest(NonWhite(s)) + 1

(* C11: every text that sanitize_query returns is non-empty, has at most   *)
(* MAX_QUERY_LENGTH characters and holds none of the five characters.      *)
C11_SanitizedQuery ==
    (san_pc # "call" /\ san_out.some) =>
        /\ san_out.val # <<>>
        /\ Len(san_out.val) <= MAX_QUERY_LENGTH
        /\ \A i \in 1..Len(san_out.val) : san_out.val[i] \notin Dangerous

C11_Witness ==
    /\ san_pc = "returned" /\ san_out.some
    /\ \E i \in 1..Len(san_in) : san_in[i] \in Dangerous
    /\ Len(san_out.val) >= MAX_QUERY_LENGTH - 1

(* C12 as stated: the outcome is the trimmed input with the five           *)
(* characters deleted, nothing else removed; rejection when the trimmed    *)
(* input is empty or too long or the remainder is empty.                   *)
C12_DeletionOnly ==
    san_pc # "call" =>
        LET n == NonWhite(san_in)
            remainder == SelectSeq(SubSeq(san_in, Lowest(n), Highest(n)), NotDangerous)
        IN san_out = IF n = {} \/ TrimmedLen(san_in) > MAX_QUERY_LENGTH \/ remainder = <<>>
                     THEN None ELSE Some(remainder)

(* C12, amended: after the deletion the text is trimmed once more.  The    *)
(* input is rejected when its trimmed length is zero or above the bound or *)
(* when it holds no character besides white space and the five; otherwise  *)
(* the outcome is the stretch from its first to its last such character,   *)
(* with the five characters deleted and every other character kept.        *)
C12_DeletionThenTrim ==
    san_pc # "call" =>
        LET p == Plain(san_in)
        IN san_out = IF p = {} \/ TrimmedLen(san_in) > MAX_QUERY_LENGTH
                     THEN None
                     ELSE Some(SelectSeq(SubSeq(san_in, Lowest(p), Highest(p)), NotDangerous))

C12_Witness ==
    /\ san_pc = "returned" /\ san_out.some
    /\ \E i \in 1..Len(san_in) : san_in[i] \in Dangerous
    /\ Len(san_out.val) < Len(SelectSeq(SubSeq(san_in, Lowest(NonWhite(san_in)),
                                               Highest(NonWhite(san_in))), NotDangerous))

(* C13: an input made only of the five characters is rejected.             *)
C13_OnlyDangerousRejected ==
    (san_pc # "call" /\ \A i \in 1..Len(san_in) : san_in[i] \in Dangerous) =>
        san_out = None

C13_Witness ==
    /\ san_pc = "returned" /\ Len(san_in) >= 2
    /\ \A i \in 1..Len(san_in) : san_in[i] \in Dangerous
    /\ \E i, j \in 1..Len(san_in) : san_in[i] # san_in[j]
    /\ san_out = None

(* C14: sanitize_query applied to a text it returned returns that text.    *)
C14_Idempotent == san_pc = "again" => san_again = san_out

C14_Witness ==
    /\ san_pc = "again" /\ san_again.some
    /\ san_out.val # strip(san_in)
    /\ SelectSeq(strip(san_in), NotDangerous) # san_out.val


(***************************************************************************)
(* Claims about parse_claude_response and interpret_query on one reply.    *)
(***************************************************************************)
(* C15: an Interpretation that parse_claude_response returns carries a     *)
(* query that is not empty; a reply whose object has an empty or absent    *)
(* query member gives None, whatever its search type.                      *)
C15_NonEmptyQuery ==
    iq_pc.parse = "returned" =>
        /\ pr_ret.out = "interp" =>
              /\ Truthy(pr_ret.interp.query)
              /\ pr_ret.interp.query \notin {Absent, Null, Str(<<>>)}
        /\ \A o \in InnerObjects :
              (SpellsObject(iq_reply.body, o) /\ o.f["query"] \in {Absent, Str(<<>>)})
                 => pr_ret = ReturnedNone

C15_Witness ==
    /\ iq_pc.parse = "returned"
    /\ \E o \in InnerObjects :
          /\ SpellsObject(iq_reply.body, o)
          /\ o.f["query"] = Str(<<>>)
          /\ o.f["search_type"] = Str(<<"byperson">>)
    /\ pr_ret = ReturnedNone

(* C16: a reply whose text is an object with a non-empty query, inside a   *)
(* fence with or without language tag and/or between prose without braces, *)
(* parses to the Interpretation of the reply whose text is the object      *)
(* alone.                                                                  *)
C16_NoiseIgnored ==
    \A o \in InnerObjects :
        (iq_pc.parse = "returned" /\ SpellsObject(iq_reply.body, o) /\ Truthy(o.f["query"]))
            => /\ pr_ret.out = "interp"
               /\ pr_ret = parse_claude_response(TextBody(Spelling[o]))

C16_Witness ==
    /\ iq_pc.parse = "returned" /\ pr_ret.out = "interp"
    /\ iq_reply.body.text.s[1] = "Here"
    /\ \E i \in 1..Len(iq_reply.body.text.s) : iq_reply.body.text.s[i] = BT
    /\ pr_ret.interp.query = Str(<<"Test", " ", "Person">>)


(* C17: every QueryResult that interpret_query returns has exactly one of  *)
(* interpretation and error; after a timeout, a transport failure, a body  *)
(* that is no JSON, a status other than 200 or a reply that did not parse, *)
(* interpretation is absent and error is set; an Interpretation with the   *)
(* byterm default comes only from a reply whose object parsed with a       *)
(* non-empty query and without a search type.                              *)
C17_FailureNeverLooksLikeSuccess ==
    iq_pc.interpret = "returned" =>
        LET r == iq_ret.result
            failedReply ==
                \/ iq_reply.transport # "ok"
                \/ iq_reply.status # 200
                \/ parse_claude_response(iq_reply.body).out # "interp"
        IN /\ r.interpretation.some # r.error.some
           /\ success(r) <=> r.interpretation.some
           /\ failedReply => (~r.interpretation.some /\ r.error.some)
           /\ ~failedReply => r.interpretation.some
           /\ \A o \in InnerObjects :
                 (/\ SpellsObject(iq_reply.body, o)
                  /\ o.f["search_type"] = Absent
                  /\ r.interpretation.some)
                    => /\ Truthy(o.f["query"])
                       /\ r.interpretation.v.query = o.f["query"]
                       /\ r.interpretation.v.search_type = Str(<<"byterm">>)

C17_Witness ==
    /\ iq_pc.interpret = "returned"
    /\ iq_reply.transport = "ok" /\ iq_reply.status = 200
    /\ \E o \in InnerObjects :
          /\ SpellsObject(iq_reply.body, o)
          /\ o.f["search_type"] = Absent /\ o.f["query"] = Str(<<>>)
    /\ ~iq_ret.result.interpretation.some
    /\ iq_ret.result.error = Some(<<"Failed to parse Claude response">>)


(***************************************************************************)
(* Claims about normalize_search_type.                                     *)
(***************************************************************************)
ValidTokens == {"byperson", "bytitle", "byterm"}

(* C18: normalize_search_type returns one of the three tokens for every    *)
(* text: the token itself when the text is, white space at its ends and    *)
(* letter case apart, exactly that token, and byterm for every other text, *)
(* the empty one included.                                                 *)
C18_NormalizeTotal ==
    norm_pc = "returned" =>
        LET n == NonWhite(norm_in)
            token == IF Cardinality(n) = 1 THEN LowerWord(norm_in[Lowest(n)]) ELSE "none"
        IN /\ Len(norm_out) = 1 /\ norm_out[1] \in ValidTokens
           /\ norm_out = IF token \in ValidTokens THEN <<token>> ELSE <<"byterm">>
           /\ norm_in = <<"BYPERSON">> => norm_out = <<"byperson">>
           /\ norm_in = <<" ", "byterm", " ">> => norm_out = <<"byterm">>
           /\ norm_in = <<>> => norm_out = <<"byterm">>

C18_Witness ==
    /\ norm_pc = "returned"
    /\ norm_in = <<" ", "BYPERSON", "\t">>
    /\ norm_out = <<"byperson">>


(***************************************************************************)
(* Claims about the search requests of a run.                              *)
(***************************************************************************)
(* C19: a search request carries clean=true exactly when it is sent to the *)
(* byterm endpoint.                                                        *)
C19_CleanIffByterm ==
    \A i \in SearchCalls : run.calls[i].clean <=> run.calls[i].endpoint = "byterm"

(* C20: in every search request the Authorization header is the hash of    *)
(* the key, the secret and the X-Auth-Date value of that same request, and *)
(* X-Auth-Date is the clock reading of that call in whole seconds; this    *)
(* holds for every request of a sequence of searches.                      *)
C20_SignaturePerCall ==
    /\ \A i \in SearchCalls :
          LET h == run.calls[i].headers
          IN /\ h.X_Auth_Date = IntText(run.calls[i].now \div 2)
             /\ h.X_Auth_Key = GradleKey
             /\ h.Authorization = [sha1_hex_of |-> <<GradleKey, GradleSecret, h.X_Auth_Date>>]
    /\ \A i \in 1..Len(pi_history) :
          LET h == pi_history[i].request.headers
          IN h.Authorization = [sha1_hex_of |-> <<GradleKey, GradleSecret, h.X_Auth_Date>>]
    /\ \A i, j \in 1..Len(pi_history) :
          LET g == pi_history[i].request.headers
              h == pi_history[j].request.headers
          IN (g.Authorization = h.Authorization) <=> (g.X_Auth_Date = h.X_Auth_Date)

C20_Witness ==
    /\ Len(pi_history) = 2
    /\ pi_history[1].request.headers.X_Auth_Date = "1"
    /\ pi_history[2].request.headers.X_Auth_Date = "2"
    /\ pi_history[1].request.headers.Authorization
         # pi_history[2].request.headers.Authorization


(***************************************************************************)
(* Claims about one search call.                                           *)
(***************************************************************************)
Answered == sr_pc # "call" /\ sr_resp.transport = "ok"

(* C21: for a response whose body is JSON, search returns an upstream      *)
(* error with the status code and the upstream description exactly when    *)
(* the status is outside 200..299, and for a status inside it returns the  *)
(* mapped feeds without error.                                             *)
C21_ErrorIffNon2xx ==
    Answered =>
        /\ sr_pc = "returned"
        /\ sr_ret.result.error.some <=> sr_resp.status \notin 200..299
        /\ sr_ret.result.error.some =>
              sr_ret.result.error.val =
                  <<"API error: ", IntText(sr_resp.status), " - ">>
                  \o PyGet(sr_resp.body, "description", Str(<<"Unknown error">>)).s
        /\ sr_resp.status \in 200..299 =>
              Len(sr_ret.result.podcasts) = Len(sr_resp.body.items)

(* C22: on a response with status 200 total_count is the "count" member of *)
(* the body, and the number of items of "feeds" when the body has no such  *)
(* member, whatever max_results is.                                        *)
C22_TotalCount ==
    (sr_pc = "returned" /\ sr_resp.transport = "ok" /\ sr_resp.status = 200) =>
        sr_ret.result.total_count =
            IF sr_resp.body.count = Absent
            THEN Num(IntText(Len(sr_resp.body.items)))
            ELSE sr_resp.body.count

C22_Witness ==
    /\ sr_pc = "returned" /\ sr_resp.transport = "ok" /\ sr_resp.status = 200
    /\ sr_resp.body.count = Absent
    /\ Len(sr_resp.body.items) = 3
    /\ sr_args.max_results = 1
    /\ sr_ret.result.total_count = Num("3")

(* the record of an item that has the member k, and its default otherwise  *)
Mapped(item, k, default) == IF item.f[k] = Absent THEN default ELSE item.f[k]

(* C23: on a response with status 200 whose "feeds" is a list, every item  *)
(* is mapped to one record, in order, no item makes the call fail, missing *)
(* members get their defaults and a description has at most 200            *)
(* characters, the first 200 of the item's.                                *)
C23_EveryItemMapped ==
    (Answered /\ sr_resp.status = 200 /\ sr_resp.body.top = "obj"
       /\ sr_resp.body.feeds = "arr") =>
        /\ sr_pc = "returned"
        /\ Len(sr_ret.result.podcasts) = Len(sr_resp.body.items)
        /\ \A i \in 1..Len(sr_resp.body.items) :
              LET item == sr_resp.body.items[i]
                  rec == sr_ret.result.podcasts[i]
              IN /\ rec.title = Mapped(item, "title", Str(<<"Unknown">>))
                 /\ rec.author = Mapped(item, "author", Str(<<"Unknown">>))
                 /\ rec.id = Mapped(item, "id", Num("0"))
                 /\ rec.episode_count = Mapped(item, "episodeCount", Num("0"))
                 /\ rec.feed_url = Mapped(item, "url", Str(<<>>))
                 /\ rec.image_url = Mapped(item, "artwork", Mapped(item, "image", Null))
                 /\ Len(rec.description.s) <= 200
                 /\ item.f["description"].t = "str" =>
                       rec.description.s
                         = SubSeq(item.f["description"].s, 1, Len(rec.description.s))


(* C27: what get_last_request exports of a search request holds no         *)
(* character of the X-Auth-Key value and nothing of the Authorization      *)
(* signature: a client with another key or secret exports the same for the *)
(* same request at the same time.                                          *)
C27_SecretsRedacted ==
    sr_export.some =>
        /\ \A i \in 1..Len(sr_cred.api_key) :
              \A j \in 1..Len(sr_export.v.headers.X_Auth_Key) :
                  sr_export.v.headers.X_Auth_Key[j] # sr_cred.api_key[i]
        /\ \A other \in Credentials :
              sr_export.v =
                  to_dict(SearchRequest(other.api_key, other.api_secret,
                                        sr_args.search_type, sr_args.query,
                                        sr_args.max_results, sr_args.now))


(* C29: sanitize_query rejects every query listed in INVALID_QUERIES.      *)
C29_InvalidQueriesRejected ==
    \A i \in 1..Len(INVALID_QUERIES) :
        (san_pc # "call" /\ san_in = INVALID_QUERIES[i]) => san_out = None


(***************************************************************************)
(* Claims about the resources of a pipeline run.                           *)
(***************************************************************************)
(* C28: when the environment holds the search credentials, a run that gets *)
(* to build its search client builds it from them, whatever the            *)
(* configuration file holds and whether it exists or not.                  *)
C28_EnvironmentFirst ==
    config.pi_env # NoEnv =>
        /\ \A i \in SearchCalls :
              run.calls[i].headers.X_Auth_Key = config.pi_env.api_key
        /\ (run.status = "returned" /\ run.requested /\ success(run.claude))
              => SearchCalls # {}

(* C25: once an entry point has returned, raised or exited, every network  *)
(* client it opened has been closed.                                       *)
C25_ClientsClosed ==
    pc \in {"done", "raised", "exit"} => ~claude_open /\ pi_open # "open"


(***************************************************************************)
(* Claims about a client session.                                          *)
(***************************************************************************)
(* C24: the history only grows at its end.  A call of interpret_query that *)
(* returns adds one QueryResult after the entries already there, holding   *)
(* the query, the request log and the response log of that call; a step    *)
(* that is not clear_history removes and changes nothing, and changing the *)
(* list get_history returned leaves the history as it was.                 *)
C24_AppendOnly ==
    [][ /\ cl_call'.op = "interpret" =>
             /\ Len(history') = Len(history) + 1
             /\ SubSeq(history', 1, Len(history)) = history
             /\ LET r == history'[Len(history')]
                IN /\ r.query = cl_call'.query
                   /\ r.request = RequestLog(cl_key, cl_call'.query)
                   /\ r.request = last_request'
                   /\ r.response = last_response'
                   /\ r.response.status_code = StatusCode(cl_call'.reply)
        /\ cl_call'.op = "clear_history" => history' = <<>>
        /\ cl_call'.op \notin {"interpret", "clear_history"} => history' = history
      ]_vars

(* Two calls of different kinds have returned, the caller has changed the  *)
(* list it was given, and the history still holds both results.            *)
C24_Witness ==
    /\ cl_call.op = "change_returned"
    /\ Len(history) = 2
    /\ success(history[1]) /\ ~success(history[2])
    /\ cl_list.items # history

(* the symbols of an exported request *)
ExportedSymbols(d) ==
    {d.url[i] : i \in 1..Len(d.url)}
        \cup UNION {IF h = "x_api_key"
                    THEN {d.headers[h][i] : i \in 1..Len(d.headers[h])}
                    ELSE {d.headers[h]} : h \in DOMAIN d.headers}
        \cup UNION {{m.role} \cup {m.content[i] : i \in 1..Len(m.content)} :
                        m \in {d.body.messages[j] : j \in 1..Len(d.body.messages)}}

(* C26: what get_last_request exports is what a client with any other key  *)
(* would export after the same calls, and holds no symbol of the key.      *)
C26_KeyNotExported ==
    cl_call.op = "get_last_request" =>
        /\ \A other \in SessionKeys :
              cl_export = get_last_request(IF cl_calls = 0 THEN NoRequest
                                           ELSE RequestLog(other, cl_call.query))
        /\ \A i \in 1..Len(cl_key) : cl_key[i] \notin ExportedSymbols(cl_export.v)

C26_Witness ==
    /\ cl_call.op = "get_last_request"
    /\ cl_export.some
    /\ cl_key = <<"sk-ant-2">>
    /\ last_request.headers.x_api_key = cl_key

(***************************************************************************)
(* Claims about the command bridge.                                        *)
(***************************************************************************)
Tried(via) == {i \in 1..Len(br_sent) : br_sent[i].via = via}

(* C30: a command goes to the socket first and once; it goes to ADB only   *)
(* after the socket attempt failed, only with use_adb_fallback, and once;  *)
(* with the fallback enabled send_command returns a mapping and never      *)
(* raises; with it disabled a socket failure is raised and ADB is not used.*)
C30_SocketThenFallback ==
    /\ br_pc \in {"fallback", "returned", "raised"} =>
          Tried("socket") = {1}
    /\ Tried("adb") # {} =>
          /\ Tried("adb") = {2}
          /\ br_sent[1].failed
          /\ br_bridge.use_adb_fallback
    /\ (br_bridge.use_adb_fallback /\ br_pc \in {"returned", "raised"}) =>
          /\ br_pc = "returned"
          /\ br_ret.v.t = "obj"
          /\ (Tried("adb") # {} /\ br_sent[2].failed) => br_ret.v.status = "error"
    /\ (~br_bridge.use_adb_fallback /\ br_pc \in {"returned", "raised"}
          /\ br_sent[1].failed) =>
          /\ br_pc = "raised"
          /\ Tried("adb") = {}


=============================================================================
